---------------------------- MODULE Spec2Model ----------------------------
(***************************************************************************)
(* Model of the memory bandwidth saturation benchmark (src/main.cpp).      *)
(*                                                                         *)
(* One orchestrating thread (main) validates the configuration, allocates  *)
(* a zeroed buffer of 64-bit words, computes a partition size, spawns      *)
(* NUM_THREADS workers, releases a StartGate, joins the workers and        *)
(* aggregates their results.  Each worker computes its partition, builds   *)
(* its random engine, waits at the gate, and then runs ITERATIONS passes   *)
(* of read-then-write over its partition.                                  *)
(*                                                                         *)
(* The configuration (BUFFER_SIZE, NUM_THREADS, ITERATIONS and the access  *)
(* mode) is fixed for a run; Init draws it from bounded sets.  64-bit      *)
(* words are kept at full width as four 16-bit limbs, least significant    *)
(* first.  The environment is assumed to provide the memory and threads    *)
(* asked for (no bad_alloc, no std::system_error).                         *)
(***************************************************************************)
EXTENDS Integers, Sequences, FiniteSets, TLC

(***************************************************************************)
(* Bounds of the model.                                                    *)
(***************************************************************************)
\* largest number of 64-bit words BUFFER_SIZE yields
MaxWords == 4
\* largest NUM_THREADS
MaxThreads == 3
\* largest ITERATIONS
MaxIter == 2
\* configurations are explored that access at most this many elements in
\* total (words * ITERATIONS)
MaxAccesses == 8
\* random mode is explored for configurations drawing at most this many
\* indices in total (words * ITERATIONS)
MaxDraws == 4
\* spurious wake-ups of condition_variable::wait over a run
MaxSpurious == 1
\* largest clock reading at t1, in ticks after t0 (the smallest is -1: the
\* clock need not be steady)
MaxTicks == 2

(***************************************************************************)
(* Program constants.                                                      *)
(***************************************************************************)
\* sizeof(std::uint64_t)
SizeofWord == 8
\* exit code of the configuration error path
ExitTooSmall == 1
\* exit code of the normal path
ExitOk == 0
\* ticks of Clock per second (Clock::period is a nanosecond)
TicksPerSecond == 1000000000

(***************************************************************************)
(* 64-bit unsigned arithmetic on four 16-bit limbs <<l0, l1, l2, l3>>,     *)
(* value = l0 + 2^16 l1 + 2^32 l2 + 2^48 l3.                               *)
(***************************************************************************)
LimbBase == 2^16

Zero64 == <<0, 0, 0, 0>>

\* 0xA5A5A5A5A5A5A5A5, the sequential write mask
SeqMask == <<42405, 42405, 42405, 42405>>

\* 0xDEADBEEFCAFEBABE, the random write mask
RandMask == <<47806, 51966, 48879, 57005>>

\* 0x9E3779B97F4A7C15, the random fold addend
GoldenGamma == <<31765, 32586, 31161, 40503>>

RECURSIVE XorBits(_, _, _)
XorBits(a, b, n) ==
    IF n = 0 THEN 0
    ELSE (((a % 2) + (b % 2)) % 2) + 2 * XorBits(a \div 2, b \div 2, n - 1)

\* a ^ b on uint64
Xor64(a, b) == [k \in 1..4 |-> XorBits(a[k], b[k], 16)]

\* carry into limb k of a + b
RECURSIVE Carry(_, _, _)
Carry(a, b, k) ==
    IF k = 1 THEN 0 ELSE (a[k-1] + b[k-1] + Carry(a, b, k - 1)) \div LimbBase

\* a + b on uint64 (wraps modulo 2^64)
Add64(a, b) == [k \in 1..4 |-> (a[k] + b[k] + Carry(a, b, k)) % LimbBase]

\* a << 1 on uint64 (the top bit is shifted out)
Shl1(a) ==
    [k \in 1..4 |->
        ((2 * a[k]) % LimbBase) + (IF k = 1 THEN 0 ELSE a[k-1] \div (LimbBase \div 2))]

(***************************************************************************)
(* State.                                                                  *)
(***************************************************************************)
VARIABLES
    \* configuration
    BUFFER_SIZE, NUM_THREADS, ITERATIONS, random_access,
    \* main thread
    mpc, words, allocated, buf, words_per_thread, results,
    spawned, joined, aggregated, total_bytes, total_checksum, exitCode,
    \* timing and throughput: clock readings (<<>> before they are taken), mbps
    t0, t1, mbps,
    \* StartGate
    go, mutex, spurious,
    \* workers
    wpc, begin, end, rng, it, pos, local_sum, bytes, rlog, wlog,
    \* per result slot, the stores made to it: who stored, after how many passes
    slotWrites

config == <<BUFFER_SIZE, NUM_THREADS, ITERATIONS, random_access>>
mainVars == <<mpc, words, allocated, buf, words_per_thread, results,
              spawned, joined, aggregated, total_bytes, total_checksum, exitCode>>
timeVars == <<t0, t1, mbps>>
gateVars == <<go, mutex, spurious>>
workerVars == <<wpc, begin, end, rng, it, pos, local_sum, bytes, rlog, wlog>>
vars == <<config, mainVars, timeVars, gateVars, workerVars, slotWrites>>

\* thread ids the model provides room for
Tids == 0..(MaxThreads - 1)

\* the workers of this run
Workers == 0..(NUM_THREADS - 1)

Min(a, b) == IF a <= b THEN a ELSE b

\* mutant: one more than the quotient rounded down
WordsPerThreadPadded(w, n) == (w + n) \div n

\* mutant: the quotient rounded down
WordsPerThreadFloor(w, n) == w \div n

\* words_per_thread = (words + NUM_THREADS - 1) / NUM_THREADS
WordsPerThread(w, n) == (w + n - 1) \div n

\* mutant: a range that starts one element early
PartBeginEarly(tid, w, wpt) == Min(w, tid * wpt) - (IF tid > 0 THEN 1 ELSE 0)

\* begin = min(words, tid * words_per_thread)
PartBegin(tid, w, wpt) == Min(w, tid * wpt)

\* mutant: a range that ends one element late
PartEndLate(b, w, wpt) == Min(w, b + wpt + 1)

\* end = min(words, begin + words_per_thread)
PartEnd(b, w, wpt) == Min(w, b + wpt)

\* mutant: a test that an unsigned count never meets
TooSmallNever(w) == w < 0

\* words == 0: the configuration error
TooSmall(w) == w = 0

\* mutant: dist(0, end - 1)
StreamsFromZero(b, e, n) == [1..n -> 0..(e - 1)]

\* the output streams a freshly seeded engine, read through dist(begin, end-1),
\* can produce for n draws: every value lies in [begin, end-1]
Streams(b, e, n) == [1..n -> b..(e - 1)]

\* local_sum += (v ^ (local_sum << 1))
FoldSeq(ls, v) == Add64(ls, Xor64(v, Shl1(ls)))

\* local_sum += (v + 0x9E3779B97F4A7C15)
FoldRand(ls, v) == Add64(ls, Add64(v, GoldenGamma))

Fold(rnd, ls, v) == IF rnd THEN FoldRand(ls, v) ELSE FoldSeq(ls, v)

\* the value stored back: v ^ mask
MixSameMask(rnd, v) == Xor64(v, SeqMask)

MixAdd(rnd, v) == Add64(v, IF rnd THEN RandMask ELSE SeqMask)

Mix(rnd, v) == Xor64(v, IF rnd THEN RandMask ELSE SeqMask)

\* mutant: the write is not counted
PassBytesReadOnly(cnt) == cnt * SizeofWord

\* bytes accounted for one pass over cnt elements: cnt * sizeof(word) * 2
PassBytes(cnt) == cnt * SizeofWord * 2

\* results.size()
ResultCount == Cardinality(DOMAIN results)

\* mutant: a join that returns whether or not the thread has finished
JoinableAlways(t) == TRUE

\* th.join() returns once the thread has finished
Joinable(t) == wpc[t] = "done"

\* mutant: a wait that does not look at go
GatePredOpen == TRUE

\* mutant: a wait that blocks without testing go first
GatePredShut == FALSE

\* the predicate of cv.wait(lk, pred)
GatePred == go

\* mutant: cv.notify_one() wakes a single waiter
NotifyOne(pcs) ==
    IF \E t \in Tids : pcs[t] = "waiting"
    THEN LET first == CHOOSE t \in Tids :
                          /\ pcs[t] = "waiting"
                          /\ \A u \in Tids : pcs[u] = "waiting" => t <= u
         IN [pcs EXCEPT ![first] = "wait_lock"]
    ELSE pcs

\* cv.notify_all(): every thread blocked in wait goes on to re-acquire the mutex
NotifyAll(pcs) == [t \in Tids |-> IF pcs[t] = "waiting" THEN "wait_lock" ELSE pcs[t]]

\* mutant: workers with an empty range are not turned away
EmptyRangeNever(b, e) == FALSE

\* if (begin >= end) return
EmptyRange(b, e) == b >= e

\* where the worker goes after its setup: it returns, or calls gate.wait()
AfterSetup(empty) == IF empty THEN "done" ELSE "wait_lock"

\* mutant: every worker stores into slot 0
ResultSlotZero(t) == 0

\* results[tid]
ResultSlot(t) == t

\* mutant: the timer is started without waiting for the launch loop to end
AllLaunchedAlways == TRUE

\* the launch loop has run NUM_THREADS times
AllLaunched == spawned >= NUM_THREADS

\* the readings Clock::now() can return at t1, in ticks counted from t0
ClockReadings == -1..MaxTicks

\* 1024.0 * 1024.0
MiB == 1024 * 1024

\* an exact quotient num / den, kept unreduced
Quot(n, d) == [num |-> n, den |-> d]

\* 0.0
ZeroRate == Quot(Quot(0, 1), Quot(1, 1))

\* mutant: seconds >= 0
PositiveElapsedOrZero(sec) == sec.num >= 0

\* seconds > 0
PositiveElapsed(sec) == sec.num > 0

\* mbps = seconds > 0 ? (mb / seconds) : 0.0
Throughput(mb, sec) == IF PositiveElapsed(sec) THEN Quot(mb, sec) ELSE ZeroRate

(***************************************************************************)
(* Initial states: the configuration, and everything else as constructed.  *)
(***************************************************************************)
\* whole numbers of words, and two sizes the division truncates (7 and 15 bytes)
BufferSizes ==
    {SizeofWord * w : w \in 0..MaxWords} \cup {SizeofWord - 1, 2 * SizeofWord - 1}

Init ==
    /\ BUFFER_SIZE \in BufferSizes
    /\ NUM_THREADS \in 0..MaxThreads
    /\ ITERATIONS \in 0..MaxIter
    /\ random_access \in BOOLEAN
    /\ (BUFFER_SIZE \div SizeofWord) * ITERATIONS <= MaxAccesses
    /\ random_access => (BUFFER_SIZE \div SizeofWord) * ITERATIONS <= MaxDraws
    /\ mpc = "check"
    /\ words = 0
    /\ allocated = FALSE
    /\ buf = <<>>
    /\ words_per_thread = 0
    /\ results = <<>>
    /\ spawned = 0
    /\ joined = 0
    /\ aggregated = 0
    /\ total_bytes = 0
    /\ total_checksum = Zero64
    /\ exitCode = -1
    /\ go = FALSE
    /\ mutex = "free"
    /\ spurious = 0
    /\ wpc = [t \in Tids |-> "unspawned"]
    /\ begin = [t \in Tids |-> 0]
    /\ end = [t \in Tids |-> 0]
    /\ rng = [t \in Tids |-> [out |-> <<>>, n |-> 0]]
    /\ it = [t \in Tids |-> 0]
    /\ pos = [t \in Tids |-> 0]
    /\ local_sum = [t \in Tids |-> Zero64]
    /\ bytes = [t \in Tids |-> 0]
    /\ rlog = [t \in Tids |-> <<>>]
    /\ wlog = [t \in Tids |-> <<>>]
    /\ slotWrites = [t \in Tids |-> <<>>]
    /\ t0 = <<>>
    /\ t1 = <<>>
    /\ mbps = ZeroRate

(***************************************************************************)
(* The main thread.                                                        *)
(***************************************************************************)
\* words = BUFFER_SIZE / sizeof(uint64_t); if (words == 0) return 1
CheckWords ==
    /\ mpc = "check"
    /\ words' = BUFFER_SIZE \div SizeofWord
    /\ IF TooSmall(words')
       THEN /\ mpc' = "exited"
            /\ exitCode' = ExitTooSmall
       ELSE /\ mpc' = "alloc"
            /\ UNCHANGED exitCode
    /\ UNCHANGED <<config, timeVars, slotWrites, allocated, buf, words_per_thread, results, spawned, joined,
                   aggregated, total_bytes, total_checksum, gateVars, workerVars>>

\* std::vector<std::uint64_t> buf(words, 0)
Allocate ==
    /\ mpc = "alloc"
    /\ allocated' = TRUE
    /\ buf' = [i \in 0..(words - 1) |-> Zero64]
    /\ mpc' = "partition"
    /\ UNCHANGED <<config, timeVars, slotWrites, words, words_per_thread, results, spawned, joined,
                   aggregated, total_bytes, total_checksum, exitCode, gateVars, workerVars>>

\* words_per_thread, gate, threads, results(NUM_THREADS).  With NUM_THREADS == 0
\* the division is undefined: the process traps, or continues with any quotient.
Partition ==
    /\ mpc = "partition"
    /\ IF NUM_THREADS = 0
       THEN \/ /\ mpc' = "crashed"
               /\ UNCHANGED <<words_per_thread, results>>
            \/ /\ words_per_thread' \in 0..MaxWords
               /\ results' = <<>>
               /\ mpc' = "launch"
       ELSE /\ words_per_thread' = WordsPerThread(words, NUM_THREADS)
            /\ results' = [t \in Workers |-> [bytes_processed |-> 0, checksum |-> Zero64]]
            /\ mpc' = "launch"
    /\ UNCHANGED <<config, timeVars, slotWrites, words, allocated, buf, spawned, joined,
                   aggregated, total_bytes, total_checksum, exitCode, gateVars, workerVars>>

\* threads.emplace_back(worker, t)
Launch ==
    /\ mpc = "launch"
    /\ spawned < NUM_THREADS
    /\ wpc' = [wpc EXCEPT ![spawned] = "setup"]
    /\ spawned' = spawned + 1
    /\ UNCHANGED <<config, timeVars, slotWrites, mpc, words, allocated, buf, words_per_thread, results, joined,
                   aggregated, total_bytes, total_checksum, exitCode, gateVars,
                   begin, end, rng, it, pos, local_sum, bytes, rlog, wlog>>

\* auto t0 = Clock::now(), after the launch loop; ticks are counted from this
\* reading
StartTimer ==
    /\ mpc = "launch"
    /\ AllLaunched
    /\ t0' = <<0>>
    /\ mpc' = "release"
    /\ UNCHANGED <<config, t1, mbps, slotWrites, words, allocated, buf, words_per_thread, results, spawned, joined,
                   aggregated, total_bytes, total_checksum, exitCode, gateVars, workerVars>>

\* StartGate::release: std::lock_guard lk(m)
ReleaseLock ==
    /\ mpc = "release"
    /\ mutex = "free"
    /\ mutex' = "locked"
    /\ mpc' = "release_locked"
    /\ UNCHANGED <<config, timeVars, slotWrites, words, allocated, buf, words_per_thread, results, spawned, joined,
                   aggregated, total_bytes, total_checksum, exitCode, go, spurious, workerVars>>

\* StartGate::release: go = true; cv.notify_all(); and the guard's unlock
ReleaseSignal ==
    /\ mpc = "release_locked"
    /\ go' = TRUE
    /\ wpc' = NotifyAll(wpc)
    /\ mutex' = "free"
    /\ mpc' = "join"
    /\ UNCHANGED <<config, timeVars, slotWrites, words, allocated, buf, words_per_thread, results, spawned, joined,
                   aggregated, total_bytes, total_checksum, exitCode, spurious,
                   begin, end, rng, it, pos, local_sum, bytes, rlog, wlog>>

\* for (auto& th : threads) th.join()
Join ==
    /\ mpc = "join"
    /\ joined < NUM_THREADS
    /\ Joinable(joined)
    /\ joined' = joined + 1
    /\ UNCHANGED <<config, timeVars, slotWrites, mpc, words, allocated, buf, words_per_thread, results, spawned,
                   aggregated, total_bytes, total_checksum, exitCode, gateVars, workerVars>>

\* auto t1 = Clock::now(), after the join loop
StopTimer ==
    /\ mpc = "join"
    /\ joined >= NUM_THREADS
    /\ \E r \in ClockReadings : t1' = <<r>>
    /\ mpc' = "aggregate"
    /\ UNCHANGED <<config, t0, mbps, slotWrites, words, allocated, buf, words_per_thread, results, spawned, joined,
                   aggregated, total_bytes, total_checksum, exitCode, gateVars, workerVars>>

\* for (const auto& r : results) { total_bytes += ...; total_checksum ^= ...; }
Aggregate ==
    /\ mpc = "aggregate"
    /\ aggregated < ResultCount
    /\ total_bytes' = total_bytes + results[aggregated].bytes_processed
    /\ total_checksum' = Xor64(total_checksum, results[aggregated].checksum)
    /\ aggregated' = aggregated + 1
    /\ UNCHANGED <<config, timeVars, slotWrites, mpc, words, allocated, buf, words_per_thread, results, spawned,
                   joined, exitCode, gateVars, workerVars>>

\* seconds, mb, mbps, the report, and return 0
Report ==
    /\ mpc = "aggregate"
    /\ aggregated >= ResultCount
    /\ LET seconds == Quot(t1[1] - t0[1], TicksPerSecond)
           mb == Quot(total_bytes, MiB)
       IN mbps' = Throughput(mb, seconds)
    /\ exitCode' = ExitOk
    /\ mpc' = "exited"
    /\ UNCHANGED <<config, t0, t1, slotWrites, words, allocated, buf, words_per_thread, results, spawned, joined,
                   aggregated, total_bytes, total_checksum, gateVars, workerVars>>

(***************************************************************************)
(* Worker tid (the work lambda).                                           *)
(***************************************************************************)
\* begin, end, the early return on an empty range, rng and dist
WorkerSetup(t) ==
    /\ wpc[t] = "setup"
    /\ LET b == PartBegin(t, words, words_per_thread)
           e == PartEnd(b, words, words_per_thread)
       IN /\ begin' = [begin EXCEPT ![t] = b]
          /\ end' = [end EXCEPT ![t] = e]
          /\ wpc' = [wpc EXCEPT ![t] = AfterSetup(EmptyRange(b, e))]
          /\ IF EmptyRange(b, e)
             THEN UNCHANGED rng
             ELSE \E s \in Streams(b, e, IF random_access THEN (e - b) * ITERATIONS ELSE 0) :
                        rng' = [rng EXCEPT ![t] = [out |-> s, n |-> 0]]
    /\ UNCHANGED <<config, timeVars, slotWrites, mainVars, gateVars, it, pos, local_sum, bytes, rlog, wlog>>

\* StartGate::wait: std::unique_lock lk(m), also when re-acquiring after a wake-up
WaitLock(t) ==
    /\ wpc[t] = "wait_lock"
    /\ mutex = "free"
    /\ mutex' = "locked"
    /\ wpc' = [wpc EXCEPT ![t] = "wait_pred"]
    /\ UNCHANGED <<config, timeVars, slotWrites, mainVars, go, spurious,
                   begin, end, rng, it, pos, local_sum, bytes, rlog, wlog>>

\* StartGate::wait: cv.wait(lk, pred) with the lock held: return when go, else
\* unlock and block; on return the locals local_sum and bytes are set to 0
WaitPred(t) ==
    /\ wpc[t] = "wait_pred"
    /\ mutex' = "free"
    /\ IF GatePred
       THEN /\ wpc' = [wpc EXCEPT ![t] = "loop"]
            /\ local_sum' = [local_sum EXCEPT ![t] = Zero64]
            /\ bytes' = [bytes EXCEPT ![t] = 0]
            /\ it' = [it EXCEPT ![t] = 0]
            /\ pos' = [pos EXCEPT ![t] = 0]
       ELSE /\ wpc' = [wpc EXCEPT ![t] = "waiting"]
            /\ UNCHANGED <<local_sum, bytes, it, pos>>
    /\ UNCHANGED <<config, timeVars, slotWrites, mainVars, go, spurious, begin, end, rng, rlog, wlog>>

\* condition_variable::wait may return without a notification
SpuriousWake(t) ==
    /\ wpc[t] = "waiting"
    /\ spurious < MaxSpurious
    /\ spurious' = spurious + 1
    /\ wpc' = [wpc EXCEPT ![t] = "wait_lock"]
    /\ UNCHANGED <<config, timeVars, slotWrites, mainVars, go, mutex,
                   begin, end, rng, it, pos, local_sum, bytes, rlog, wlog>>

\* the index of the next access: i of the sequential loop, or dist(rng)
NextIndexFirst(t) ==
    IF random_access THEN rng[t].out[rng[t].n + 1] ELSE begin[t]

NextIndex(t) ==
    IF random_access THEN rng[t].out[rng[t].n + 1] ELSE begin[t] + pos[t]

\* one element of a pass: v = buf[i]; fold v into local_sum; buf[i] = v ^ mask
Access(t) ==
    /\ wpc[t] = "loop"
    /\ it[t] < ITERATIONS
    /\ pos[t] < end[t] - begin[t]
    /\ LET i == NextIndex(t)
           v == buf[i]
       IN /\ local_sum' = [local_sum EXCEPT ![t] = Fold(random_access, local_sum[t], v)]
          /\ buf' = [buf EXCEPT ![i] = Mix(random_access, v)]
          /\ rlog' = [rlog EXCEPT ![t] = Append(rlog[t], i)]
          /\ wlog' = [wlog EXCEPT ![t] = Append(wlog[t], i)]
    /\ rng' = [rng EXCEPT ![t].n = IF random_access THEN rng[t].n + 1 ELSE rng[t].n]
    /\ pos' = [pos EXCEPT ![t] = pos[t] + 1]
    /\ UNCHANGED <<config, timeVars, slotWrites, mpc, words, allocated, words_per_thread, results, spawned, joined,
                   aggregated, total_bytes, total_checksum, exitCode, gateVars,
                   wpc, begin, end, it, bytes>>

\* the end of a pass: bytes += cnt * sizeof(uint64_t) * 2; ++it
PassEnd(t) ==
    /\ wpc[t] = "loop"
    /\ it[t] < ITERATIONS
    /\ pos[t] >= end[t] - begin[t]
    /\ bytes' = [bytes EXCEPT ![t] = bytes[t] + PassBytes(end[t] - begin[t])]
    /\ it' = [it EXCEPT ![t] = it[t] + 1]
    /\ pos' = [pos EXCEPT ![t] = 0]
    /\ UNCHANGED <<config, timeVars, slotWrites, mainVars, gateVars, wpc, begin, end, rng, local_sum, rlog, wlog>>

\* results[tid].bytes_processed = bytes; results[tid].checksum = local_sum; return
Publish(t) ==
    /\ wpc[t] = "loop"
    /\ it[t] >= ITERATIONS
    /\ results' = [results EXCEPT ![ResultSlot(t)] =
                      [bytes_processed |-> bytes[t], checksum |-> local_sum[t]]]
    /\ slotWrites' = [slotWrites EXCEPT ![ResultSlot(t)] =
                         Append(@, [by |-> t, passes |-> it[t]])]
    /\ wpc' = [wpc EXCEPT ![t] = "done"]
    /\ UNCHANGED <<config, timeVars, mpc, words, allocated, buf, words_per_thread, spawned,
                   joined, aggregated, total_bytes, total_checksum, exitCode, gateVars,
                   begin, end, rng, it, pos, local_sum, bytes, rlog, wlog>>

MainStep ==
    \/ CheckWords
    \/ Allocate
    \/ Partition
    \/ Launch
    \/ StartTimer
    \/ ReleaseLock
    \/ ReleaseSignal
    \/ Join
    \/ StopTimer
    \/ Aggregate
    \/ Report

WorkerStep(t) ==
    \/ WorkerSetup(t)
    \/ WaitLock(t)
    \/ WaitPred(t)
    \/ Access(t)
    \/ PassEnd(t)
    \/ Publish(t)

Next ==
    \/ MainStep
    \/ \E t \in Tids : WorkerStep(t)
    \/ \E t \in Tids : SpuriousWake(t)

Spec == Init /\ [][Next]_vars

\* fair scheduling: the process is not left idle for ever while some thread
\* can take a step
FairSpec == Spec /\ WF_vars(Next)

(***************************************************************************)
(* Reference computations used by the properties.                          *)
(***************************************************************************)
\* every worker of the run has computed its range
AllSetUp == \A t \in Workers : wpc[t] \notin {"unspawned", "setup"}

\* a valid configuration: at least one word, at least one thread
ValidConfig == BUFFER_SIZE \div SizeofWord >= 1 /\ NUM_THREADS >= 1

\* the run went through to the report
Completed == mpc = "exited" /\ exitCode = ExitOk

Size(t) == end[t] - begin[t]

RECURSIVE SumSizes(_)
SumSizes(n) == IF n = 0 THEN 0 ELSE Size(n - 1) + SumSizes(n - 1)

Indices(log) == {log[k] : k \in 1..Len(log)}

InRange(t, log) == \A k \in 1..Len(log) : begin[t] <= log[k] /\ log[k] < end[t]

\* the order in which worker t visits indices over its whole run
AccessOrder(t) ==
    IF random_access
    THEN rng[t].out
    ELSE [k \in 1..(Size(t) * ITERATIONS) |-> begin[t] + ((k - 1) % Size(t))]

\* one access of a worker running on its own, from st = [buf, sum]
AloneStep(st, i) ==
    CHOOSE r \in {[buf |-> [x.buf EXCEPT ![i] = Mix(random_access, x.buf[i])],
                   sum |-> Fold(random_access, x.sum, x.buf[i])] : x \in {st}} : TRUE

\* a worker run on its own over the accesses accs[k..]
RECURSIVE RunAlone(_, _, _)
RunAlone(accs, k, st) ==
    IF k > Len(accs) THEN st ELSE RunAlone(accs, k + 1, AloneStep(st, accs[k]))

\* the workers 0, ..., n-1 run one after the other, none overlapping another:
\* the buffer they leave and the XOR of their checksums
RECURSIVE Serial(_)
Serial(n) ==
    IF n = 0 THEN [buf |-> [i \in 0..(words - 1) |-> Zero64], sum |-> Zero64]
    ELSE CHOOSE r \in
           {[buf |-> mine.buf, sum |-> Xor64(prev.sum, mine.sum)] :
              <<prev, mine>> \in
                 {<<p, RunAlone(AccessOrder(n - 1), 1, [buf |-> p.buf, sum |-> Zero64])>> :
                     p \in {Serial(n - 1)}}} : TRUE

\* one access in the given mode, from st = [buf, sum]: the loop body of the
\* sequential branch (rnd = FALSE) or of the random branch (rnd = TRUE)
ModeStep(rnd, st, i) ==
    CHOOSE r \in {[buf |-> [x.buf EXCEPT ![i] = Mix(rnd, x.buf[i])],
                   sum |-> Fold(rnd, x.sum, x.buf[i])] : x \in {st}} : TRUE

\* the loop body of the given mode applied along the indices accs[k..]
RECURSIVE RunMode(_, _, _, _)
RunMode(rnd, accs, k, st) ==
    IF k > Len(accs) THEN st ELSE RunMode(rnd, accs, k + 1, ModeStep(rnd, st, accs[k]))

\* the state a worker starts from: the zero-filled buffer and local_sum = 0
FreshRun == [buf |-> [i \in 0..(words - 1) |-> Zero64], sum |-> Zero64]

\* how many times the index i occurs in a log
Visits(log, i) == Cardinality({k \in 1..Len(log) : log[k] = i})

\* how many times the threads 0, ..., n-1 together have written buf[i]
RECURSIVE WritesBelow(_, _)
WritesBelow(n, i) ==
    IF n = 0 THEN 0 ELSE Visits(wlog[n - 1], i) + WritesBelow(n - 1, i)

(***************************************************************************)
(* Properties.                                                             *)
(***************************************************************************)
\* C1: with words >= 1 and NUM_THREADS >= 1, once every worker has computed
\* [begin, end), every buffer index 0..words-1 lies in exactly one worker's
\* range: the ranges are pairwise disjoint and cover the buffer.
C1_PartitionsCoverExactlyOnce ==
    (ValidConfig /\ spawned = NUM_THREADS /\ AllSetUp) =>
        \A i \in 0..(words - 1) :
            Cardinality({t \in Workers : begin[t] <= i /\ i < end[t]}) = 1

\* a run of 3 words over 2 threads: ranges [0,2) and [2,3), the last one shorter
C1_Witness ==
    /\ words = 3 /\ NUM_THREADS = 2 /\ spawned = 2 /\ AllSetUp
    /\ begin[0] = 0 /\ end[0] = 2 /\ begin[1] = 2 /\ end[1] = 3

\* C2: in either mode and at every point of every interleaving, each index a
\* worker has read or written lies in its own range, and no index has been
\* read or written by two different workers.
C2_NoSharedElement ==
    /\ \A t \in Tids : InRange(t, rlog[t]) /\ InRange(t, wlog[t])
    /\ \A t, u \in Tids :
          t # u => (Indices(rlog[t]) \cup Indices(wlog[t]))
                     \cap (Indices(rlog[u]) \cup Indices(wlog[u])) = {}

\* two workers have both been inside their loops, here in random mode
C2_Witness ==
    /\ random_access
    /\ Len(wlog[0]) >= 2 /\ Len(wlog[1]) >= 2
    /\ wpc[0] = "loop" /\ wpc[1] = "loop"

\* C3: after a completed run of a valid configuration, total_bytes is the sum
\* over the workers of size * ITERATIONS * 2 * sizeof(word), which is
\* words * ITERATIONS * 2 * 8.
C3_TotalBytesExact ==
    (Completed /\ NUM_THREADS >= 1) =>
        /\ total_bytes = SumSizes(NUM_THREADS) * ITERATIONS * 2 * SizeofWord
        /\ total_bytes = words * ITERATIONS * 2 * 8

\* 4 words, 2 threads, 2 iterations: 4 * 2 * 16 = 128 bytes
C3_Witness ==
    /\ Completed /\ words = 4 /\ NUM_THREADS = 2 /\ ITERATIONS = 2
    /\ total_bytes = 128

\* C4: a worker that is inside its main loop, or has performed any buffer
\* access, does so with go true: nothing is read or written before release().
C4_NoAccessBeforeRelease ==
    \A t \in Tids :
        (wpc[t] = "loop" \/ Len(rlog[t]) > 0 \/ Len(wlog[t]) > 0) => go

\* a worker that blocked in wait() before the release is now accessing the buffer
C4_Witness ==
    \E t \in Tids : wpc[t] = "loop" /\ Len(rlog[t]) > 0 /\ spurious > 0

\* C5: the gate is one-shot and stays open.  go never goes back to false; as
\* soon as go is true no worker is blocked in wait() (release() wakes every
\* blocked worker, none is missed); and a worker that tests the predicate
\* after the release leaves wait() without blocking.
C5_GateStaysOpen ==
    /\ [][go => go']_vars
    /\ [](go => \A t \in Tids : wpc[t] # "waiting")
    /\ [][\A t \in Tids :
            (go /\ wpc[t] = "wait_pred") => wpc'[t] \in {"wait_pred", "loop"}]_vars

\* one worker was blocked when release() ran and is through; another arrives
\* at wait() only after the release
C5_Witness ==
    /\ go
    /\ \E t, u \in Tids :
          /\ wpc[t] = "loop"
          /\ wpc[u] = "wait_pred"
          /\ spurious > 0

\* C6: whenever the orchestrator is aggregating or has aggregated a slot,
\* every worker has finished and has been joined, so no slot read can be
\* followed by a write of that slot.
C6_AggregateAfterJoin ==
    (mpc = "aggregate" \/ aggregated > 0) =>
        /\ joined = NUM_THREADS
        /\ \A t \in Workers : wpc[t] = "done"

\* the second of two result slots has just been read
C6_Witness ==
    mpc = "aggregate" /\ NUM_THREADS = 2 /\ aggregated = 2 /\ total_bytes > 0

\* C7: under fair scheduling a valid configuration always runs to the report
\* and exit code 0, also when some workers get an empty range.
C7_Terminates ==
    ValidConfig => <>(mpc = "exited" /\ exitCode = ExitOk)

\* a completed run in which the last worker had an empty range
C7_Witness ==
    /\ Completed /\ NUM_THREADS = 2 /\ words = 1
    /\ begin[1] = end[1] /\ wpc[1] = "done"

\* C8: in random mode every index drawn and visited lies in [begin, end), each
\* visit reads and writes the same index, each completed pass has made exactly
\* end - begin visits, and a finished worker has made (end - begin) * ITERATIONS.
C8_RandomVisits ==
    random_access =>
        \A t \in Tids :
            /\ InRange(t, rng[t].out)
            /\ InRange(t, rlog[t])
            /\ rlog[t] = wlog[t]
            /\ rng[t].n = Len(rlog[t])
            /\ wpc[t] = "loop" =>
                  /\ pos[t] <= Size(t)
                  /\ Len(rlog[t]) = it[t] * Size(t) + pos[t]
            /\ wpc[t] = "done" => Len(rlog[t]) = Size(t) * ITERATIONS

\* worker 1 has finished one random pass over a range of two elements,
\* visiting the same index twice
C8_Witness ==
    /\ random_access /\ wpc[1] = "done" /\ Size(1) = 2
    /\ Len(rlog[1]) = 2 /\ rlog[1][1] = rlog[1][2] /\ begin[1] > 0

\* C9: after a completed run of a valid configuration the combined checksum
\* and the buffer are those of the workers run one after another, each on its
\* own access order: no interleaving changes them.
C9_InterleavingIndependent ==
    (Completed /\ NUM_THREADS >= 1) =>
        \A r \in {Serial(NUM_THREADS)} : total_checksum = r.sum /\ buf = r.buf

\* a completed two-worker run with a non-zero combined checksum
C9_Witness ==
    /\ Completed /\ NUM_THREADS = 2 /\ words = 3 /\ ITERATIONS = 2
    /\ total_checksum # Zero64
    /\ ~random_access

\* C10: when BUFFER_SIZE yields zero words the run ends at the check: no
\* buffer is allocated, no thread is spawned, and the exit code is non-zero.
C10_ZeroWordsRejected ==
    (BUFFER_SIZE \div SizeofWord = 0) =>
        /\ ~allocated
        /\ spawned = 0
        /\ \A t \in Tids : wpc[t] = "unspawned"
        /\ mpc \in {"check", "exited"}
        /\ mpc = "exited" => exitCode # 0

\* a 7-byte buffer has been rejected with exit code 1
C10_Witness ==
    BUFFER_SIZE = 7 /\ mpc = "exited" /\ exitCode = 1 /\ ~allocated

\* C11: a configuration with NUM_THREADS <= 0 is rejected before any buffer is
\* allocated and before any thread is spawned, with a non-zero exit code.
\* The code has no such check: the buffer is allocated before NUM_THREADS is
\* first used, as the divisor of words_per_thread.
C11_ZeroThreadsRejected ==
    (NUM_THREADS <= 0) =>
        /\ ~allocated
        /\ spawned = 0
        /\ mpc \in {"check", "exited"}
        /\ mpc = "exited" => exitCode # ExitOk

\* C12 as stated: a configuration with 1 <= words < NUM_THREADS is rejected
\* before any thread is spawned, and every spawned worker has a non-empty range.
C12_Original ==
    /\ (1 <= BUFFER_SIZE \div SizeofWord /\ BUFFER_SIZE \div SizeofWord < NUM_THREADS) =>
          /\ spawned = 0
          /\ mpc = "exited" => exitCode # ExitOk
    /\ \A t \in Tids : wpc[t] \notin {"unspawned", "setup"} => begin[t] < end[t]

\* C12 amended: only words == 0 is rejected.  With 1 <= words a run is never
\* turned away; a worker whose range is empty is spawned and returns from its
\* setup, so that it never waits at the gate, never enters the loop, never
\* touches the buffer and never stores a result; every worker that waits at the
\* gate or runs the loop has a non-empty range.
C12_EmptyRangeWorkersReturn ==
    /\ (1 <= BUFFER_SIZE \div SizeofWord) => exitCode # ExitTooSmall
    /\ \A t \in Tids :
          /\ wpc[t] \in {"wait_lock", "wait_pred", "waiting", "loop"} => begin[t] < end[t]
          /\ (wpc[t] = "done" /\ begin[t] >= end[t]) =>
                /\ rlog[t] = <<>> /\ wlog[t] = <<>>
                /\ slotWrites[t] = <<>>
                /\ results[t] = [bytes_processed |-> 0, checksum |-> Zero64]

\* one word over two threads: worker 1 has returned with an empty range while
\* worker 0 runs its loop on the only element
C12_Witness ==
    /\ words = 1 /\ NUM_THREADS = 2
    /\ wpc[1] = "done" /\ begin[1] = end[1]
    /\ wpc[0] = "loop" /\ Len(rlog[0]) > 0

\* C13: the reported throughput is 0.0 whenever the elapsed time is not
\* strictly positive, and otherwise it is (total_bytes / 2^20) / seconds with
\* total_bytes >= 0; no quotient by a zero elapsed time is ever formed.
C13_ThroughputGuarded ==
    /\ mbps.den.num # 0
    /\ Completed =>
          IF t1[1] - t0[1] > 0
          THEN /\ mbps = Quot(Quot(total_bytes, 1024 * 1024),
                              Quot(t1[1] - t0[1], TicksPerSecond))
               /\ mbps.num.num >= 0
               /\ mbps.den.num > 0
          ELSE mbps = Quot(Quot(0, 1), Quot(1, 1))

\* a completed run that moved data but whose two clock readings are equal
C13_Witness ==
    /\ Completed /\ total_bytes > 0 /\ t1 = t0 /\ mbps = ZeroRate

\* C14: t0 is read only after all NUM_THREADS threads have been spawned and
\* before release() (go is true only with t0 read); t1 is read only after every
\* worker has finished and been joined; so every buffer access falls after t0
\* and none can follow t1.
C14_TimerBracketsWork ==
    /\ t0 # <<>> => spawned = NUM_THREADS
    /\ go => t0 # <<>>
    /\ \A t \in Tids : (rlog[t] # <<>> \/ wlog[t] # <<>> \/ wpc[t] = "loop") => t0 # <<>>
    /\ t1 # <<>> =>
          /\ t0 # <<>>
          /\ joined = NUM_THREADS
          /\ \A t \in Workers : wpc[t] = "done"

\* t1 has been read after three workers, two of them with work, were joined
C14_Witness ==
    /\ t1 # <<>> /\ NUM_THREADS = 3 /\ joined = 3
    /\ Len(rlog[0]) > 0 /\ Len(rlog[1]) > 0

\* C15 as stated: every spawned worker that has returned has written its own
\* result slot exactly once.
C15_Original ==
    \A t \in Workers : wpc[t] = "done" => Len(slotWrites[t]) = 1

\* C15 amended: a worker with a non-empty range writes results[t] exactly once,
\* after all ITERATIONS passes, and no worker ever writes another worker's slot;
\* a worker with an empty range returns without writing, so that its slot keeps
\* the zero value it was constructed with.
C15_OwnSlotOnceAfterLoop ==
    \A t \in Tids :
        /\ Len(slotWrites[t]) <= 1
        /\ \A k \in 1..Len(slotWrites[t]) :
              /\ slotWrites[t][k].by = t
              /\ slotWrites[t][k].passes = ITERATIONS
        /\ (t \in Workers /\ wpc[t] = "done") =>
              Len(slotWrites[t]) = (IF begin[t] < end[t] THEN 1 ELSE 0)
        /\ wpc[t] # "done" => slotWrites[t] = <<>>
        /\ (t \in DOMAIN results /\ slotWrites[t] = <<>>) =>
              results[t] = [bytes_processed |-> 0, checksum |-> Zero64]

\* three workers over four words: workers 0 and 1 have stored their results
\* after two passes, worker 2 (empty range) has returned and stored nothing
C15_Witness ==
    /\ NUM_THREADS = 3 /\ words = 4 /\ ITERATIONS = 2
    /\ \A t \in Workers : wpc[t] = "done"
    /\ Len(slotWrites[0]) = 1 /\ Len(slotWrites[1]) = 1 /\ slotWrites[2] = <<>>

\* C16 as stated: with words >= NUM_THREADS >= 1 the workers 0..NUM_THREADS-2
\* all have ranges of the same size and the last worker's range is non-empty.
C16_Original ==
    (words >= NUM_THREADS /\ NUM_THREADS >= 1 /\ AllSetUp) =>
        /\ \A t \in Workers : t < NUM_THREADS - 1 => Size(t) = Size(0)
        /\ Size(NUM_THREADS - 1) > 0

\* C16 amended: the range size is the ceiling of words / NUM_THREADS, cut off at
\* the end of the buffer: worker 0 has words_per_thread elements, no worker has
\* more, at most one worker has a shorter non-empty range and every worker after
\* a short one has an empty range; the last worker's range may be empty even
\* when words >= NUM_THREADS.
C16_CeilingPartition ==
    (NUM_THREADS >= 1 /\ AllSetUp) =>
        /\ words_per_thread * NUM_THREADS >= words
        /\ (words_per_thread - 1) * NUM_THREADS < words
        /\ Size(0) = words_per_thread
        /\ \A t \in Workers :
              /\ 0 <= Size(t) /\ Size(t) <= words_per_thread
              /\ (Size(t) < words_per_thread /\ t + 1 < NUM_THREADS) => Size(t + 1) = 0

\* four words over three workers: sizes 2, 2 and 0
C16_Witness ==
    /\ words = 4 /\ NUM_THREADS = 3 /\ AllSetUp
    /\ Size(0) = 2 /\ Size(1) = 2 /\ Size(2) = 0

\* C17: in sequential mode the k-th access of worker t reads and writes index
\* begin + ((k - 1) mod size): each pass goes through [begin, end) once in
\* ascending order, reads and writes pair up, and a finished worker has read and
\* written each element of its range exactly ITERATIONS times.
C17_SequentialPass ==
    ~random_access =>
        \A t \in Tids :
            /\ rlog[t] = wlog[t]
            /\ \A k \in 1..Len(rlog[t]) : rlog[t][k] = begin[t] + ((k - 1) % Size(t))
            /\ wpc[t] = "loop" => Len(rlog[t]) = it[t] * Size(t) + pos[t]
            /\ (wpc[t] = "done" /\ t \in Workers) =>
                  \A i \in begin[t]..(end[t] - 1) :
                      Cardinality({k \in 1..Len(rlog[t]) : rlog[t][k] = i}) = ITERATIONS

\* a sequential worker over two elements that has finished its two passes
C17_Witness ==
    /\ ~random_access /\ ITERATIONS = 2
    /\ \E t \in Workers :
          /\ wpc[t] = "done" /\ Size(t) = 2
          /\ rlog[t] = <<begin[t], begin[t] + 1, begin[t], begin[t] + 1>>
          /\ wlog[t] = rlog[t]

\* C18 as stated: in a completed run, along the index sequence a worker visited, the other mode's
\* loop body leaves the same buffer contents and the same checksum as the mode
\* that ran.
C18_Original ==
    \A t \in Workers :
        (Completed /\ begin[t] < end[t]) =>
            \A o \in {RunMode(~random_access, rlog[t], 1, FreshRun)} :
                /\ results[t].checksum = o.sum
                /\ \A i \in begin[t]..(end[t] - 1) : buf[i] = o.buf[i]

\* C18 amended: the two modes share the loop structure, the number of accesses
\* per pass and the byte accounting, so that bytes_processed is the same in both
\* modes; they differ in the index generation and also in the checksum fold
\* (local_sum += v ^ (local_sum << 1) against local_sum += v + 0x9E37...) and in
\* the write mask (0xA5A5... against 0xDEAD...).  Along the same index sequence
\* the two modes leave the same value in an element exactly when it was visited
\* an even number of times, and after a single visit the sequential checksum is
\* 0 while the random one is 0x9E3779B97F4A7C15.
C18_ModesShareStructureOnly ==
    \A t \in Workers :
        /\ (wpc[t] = "done" /\ begin[t] < end[t]) =>
              /\ Len(rlog[t]) = Size(t) * ITERATIONS
              /\ results[t].bytes_processed = PassBytes(Size(t)) * ITERATIONS
        /\ (Completed /\ begin[t] < end[t]) =>
              \A own \in {RunMode(random_access, rlog[t], 1, FreshRun)} :
              \A other \in {RunMode(~random_access, rlog[t], 1, FreshRun)} :
                  /\ results[t].checksum = own.sum
                  /\ \A i \in begin[t]..(end[t] - 1) :
                        /\ buf[i] = own.buf[i]
                        /\ (own.buf[i] = other.buf[i]) <=> (Visits(rlog[t], i) % 2 = 0)
                  /\ Len(rlog[t]) = 1 =>
                        /\ own.sum = (IF random_access THEN GoldenGamma ELSE Zero64)
                        /\ other.sum = (IF random_access THEN Zero64 ELSE GoldenGamma)

\* a finished random-mode worker whose draws were the ascending order of its
\* two-element range, repeated for each of the two passes
C18_Witness ==
    /\ Completed /\ random_access /\ ITERATIONS = 2
    /\ \E t \in Workers :
          /\ wpc[t] = "done" /\ Size(t) = 2
          /\ rlog[t] = <<begin[t], begin[t] + 1, begin[t], begin[t] + 1>>
          /\ results[t].bytes_processed = 64

\* C19: whenever t0 has been read (and so whenever release() has been called),
\* every worker has finished its setup and has reached gate.wait().
\* The orchestrator reads t0 right after the last emplace_back, without waiting
\* for any worker to arrive at the gate.
C19_SetupBeforeTimer ==
    t0 # <<>> => \A t \in Workers : wpc[t] \notin {"unspawned", "setup"}

\* C20: every element of the allocated buffer is 0 or the mode's mask K, and it
\* is 0 exactly when it has been written an even number of times; a completed
\* sequential run with an even ITERATIONS leaves the buffer all zeros.
C20_ZeroOrMask ==
    allocated =>
        /\ \A i \in 0..(words - 1) :
              /\ buf[i] \in {Zero64, IF random_access THEN RandMask ELSE SeqMask}
              /\ (buf[i] = Zero64) <=>
                    (WritesBelow(MaxThreads, i) % 2 = 0)
        /\ (Completed /\ ~random_access /\ ITERATIONS % 2 = 0) =>
              \A i \in 0..(words - 1) : buf[i] = Zero64

\* a completed sequential run of two passes over three words by two workers:
\* every element was written twice and is zero again
C20_Witness ==
    /\ Completed /\ ~random_access /\ ITERATIONS = 2
    /\ words = 3 /\ NUM_THREADS = 2
    /\ Len(wlog[0]) = 4 /\ Len(wlog[1]) = 2
    /\ \A i \in 0..2 : buf[i] = Zero64

=============================================================================
